---------------------------- MODULE Spec2Model ----------------------------
(***************************************************************************)
(* TripGenie: the itinerary reconciliation engine of src/App.tsx, with the *)
(* callers in src/components/ItineraryList.tsx and the collaborator        *)
(* wrappers of the generation service (src/unnamed/part_001).              *)
(*                                                                         *)
(* JavaScript object identity is modelled as follows.                      *)
(*  - A TripPlan object is only ever copied ({...plan}) and the copy       *)
(*    assigned before it is published, so a plan is a value: a record.     *)
(*  - The copy is shallow: every copy of a plan shares the one itinerary   *)
(*    array and its DayPlan objects.  The plan record therefore holds a    *)
(*    reference (field itinerary) into the variable itineraries, the heap  *)
(*    of itinerary arrays.  A write day.activities = x or                  *)
(*    day.activities[i] = x is a write to that heap, seen by every plan    *)
(*    record that holds the reference.                                     *)
(*  - An activities array is written only through its DayPlan              *)
(*    (day.activities[i] = x).  Once the DayPlan points to another array   *)
(*    the old one can no longer change, so a pending recalculateLogistics  *)
(*    call holds either the array the DayPlan still points to (live) or a  *)
(*    frozen copy of the array it was given.                               *)
(*  - Activity objects are never written after creation: values.           *)
(* Indices (dayIndex, activityIndex, selectedDayIndex) are the 0-based     *)
(* JavaScript indices; sequences are 1-based, hence the "+ 1".             *)
(***************************************************************************)
EXTENDS Integers, Sequences, FiniteSets, TLC

VARIABLES
    plan,                  \* App: useState<TripPlan | null>
    itineraries,           \* heap: itinerary reference -> list of days' activities
    loading,               \* App: loading
    error,                 \* App: error ("" is null)
    selectedDayIndex,      \* App: selectedDayIndex
    areaSelections,        \* App: areaSelections
    savedPlans,            \* App: savedPlans (the archive)
    isRefreshingLogistics, \* App: isRefreshingLogistics
    isReplacing,           \* ItineraryList: isReplacing of the mounted instance
    planRequests,          \* pending generateTripPlan calls
    refreshes,             \* pending recalculateLogistics calls, oldest first
    replaces,              \* pending generateReplacementActivity calls
    rejected,              \* promises of handleReplace that ended rejected
    nextId,                \* ids handed out so far by crypto.randomUUID()
    ops,                   \* reorders, edits and replacements so far
    homeMap,               \* HomeMap and AreaDrawer: state of the mounted instance
    destination,           \* TripInput: destination
    defaultPrevented,      \* the last submit event of the form was handled
    request,               \* the TripRequest last passed to onPlanTrip
    itineraryWidth,        \* App: itineraryWidth
    isResizing,            \* App: isResizing
    containerWidth,        \* width of the App container (containerRef)
    tripMap,               \* TripMap: what its last render drew
    logistics,             \* the last recalculateLogistics call on its own
    drag,                  \* ItineraryList: draggedIndex, dropTargetIndex
    lastReorder            \* the last call of handleReorderActivities

vars == <<plan, itineraries, loading, error, selectedDayIndex, areaSelections,
          savedPlans, isRefreshingLogistics, isReplacing, planRequests,
          refreshes, replaces, rejected, nextId, ops,
          homeMap, destination, defaultPrevented, request, itineraryWidth,
          isResizing, containerWidth, tripMap, logistics, drag,
          lastReorder>>

\* The state of the components around the itinerary engine.
side == <<homeMap, destination, defaultPrevented, request, itineraryWidth,
          isResizing, containerWidth, tripMap, logistics, drag, lastReorder>>

\* The same but the drag state of ItineraryList and the last reorder.
sideButDrag == <<homeMap, destination, defaultPrevented, request,
                 itineraryWidth, isResizing, containerWidth, tripMap,
                 logistics>>

---------------------------------------------------------------------------
\* Bounds of the model.
MaxPlans == 2
MaxOps == 2
MaxClock == 1
MaxAreas == 1
MaxRegions == 3
MaxTrigger == 3

---------------------------------------------------------------------------
\* Data: src/types.ts

Coordinates(n) == [lat |-> n, lng |-> 10 - n]

\* The absent value (undefined) of an optional Activity.
NoActivity ==
    [name |-> "undefined", description |-> "", location |-> Coordinates(0),
     type |-> "", price |-> "", items |-> <<>>,
     time |-> "", travelDistance |-> "", travelTime |-> ""]

Activity(n, loc, kind, t) ==
    [name |-> n, description |-> "about", location |-> Coordinates(loc),
     type |-> kind, price |-> "10", items |-> <<"item">>,
     time |-> t, travelDistance |-> "5 km", travelTime |-> "10 min"]

ActA == Activity("A", 1, "food", "09:00")
ActB == Activity("B", 2, "landmark", "11:00")
ActC == Activity("C", 3, "relax", "09:30")
Hotel == [Activity("Hotel", 9, "stay", "Check-in") EXCEPT
             !.travelDistance = "", !.travelTime = ""]

\* The absent plan (null).
NoPlan ==
    [id |-> 0, destination |-> "", itinerary |-> 0,
     stayLocation |-> NoActivity, createdAt |-> 0,
     centerCoordinates |-> Coordinates(0)]

Days(p) == itineraries[p.itinerary]

Range(s) == {s[i] : i \in 1..Len(s)}

\* A null LatLng.
NoPoint == [lat |-> -1, lng |-> -1]

\* TripBounds of the map's initial view.
Box == [north |-> 2, south |-> 1, east |-> 2, west |-> 1]

\* HomeMap's useState initial values, AreaDrawer's included; bounds is what
\* map.getBounds() returns.
HomeMapInit ==
    [isDrawingMode |-> FALSE, startPoint |-> NoPoint, currentPoint |-> NoPoint,
     selectVisibleTrigger |-> 0, bounds |-> Box]

\* null of a nullable value, and a value that is not null.
Null == [isNull |-> TRUE, value |-> <<>>]
NotNull(v) == [isNull |-> FALSE, value |-> v]

\* No TripRequest has been passed to onPlanTrip yet.
NoRequest == [destination |-> "", selectedAreas |-> Null]

\* Nothing drawn by TripMap, nothing asked of recalculateLogistics.
NoTripMap ==
    [pathPositions |-> <<>>, polyline |-> <<>>,
     view |-> [fitBounds |-> [north |-> -1, south |-> -1, east |-> -1,
                              west |-> -1],
               setView |-> [center |-> <<-1, -1>>, zoom |-> -1]]]
NoLogisticsCall == [activities |-> <<>>, updatedLogistics |-> <<>>,
                    result |-> <<>>]

\* ItineraryList's useState(null) for draggedIndex and dropTargetIndex;
\* -1 is null.
DragInit == [draggedIndex |-> -1, dropTargetIndex |-> -1]

\* No call of handleReorderActivities yet.
NoReorder == [dayIndex |-> -1, itinerary |-> 0, newActivities |-> <<>>]

\* The initial state of the components around the itinerary engine.
SideInit ==
    /\ homeMap = HomeMapInit
    /\ destination = ""
    /\ defaultPrevented = FALSE
    /\ request = NoRequest
    /\ itineraryWidth = 480
    /\ isResizing = FALSE
    /\ containerWidth = 1280
    /\ tripMap = NoTripMap
    /\ logistics = NoLogisticsCall
    /\ drag = DragInit
    /\ lastReorder = NoReorder

Init ==
    /\ SideInit
    /\ plan = NoPlan
    /\ itineraries = [r \in 1..MaxPlans |-> <<>>]
    /\ loading = FALSE
    /\ error = ""
    /\ selectedDayIndex = 0
    /\ areaSelections = <<>>
    /\ savedPlans = <<>>
    /\ isRefreshingLogistics = FALSE
    /\ isReplacing = FALSE
    /\ planRequests = 0
    /\ refreshes = <<>>
    /\ replaces = <<>>
    /\ rejected = 0
    /\ nextId = 0
    /\ ops = 0

---------------------------------------------------------------------------
\* Helpers

RemoveAt(s, k) == [i \in 1..(Len(s) - 1) |-> IF i < k THEN s[i] ELSE s[i + 1]]

\* The ItineraryList instance is unmounted ({plan && ...} turns false): a
\* pending handleReplace keeps running, but its setIsReplacing(false)
\* reaches no mounted component.
Unmounted(rs) == [k \in 1..Len(rs) |-> [rs[k] EXCEPT !.mounted = FALSE]]

\* What generateTripPlan can return: the days of the new itinerary.
GeneratedDays == << <<ActA, ActB>>, <<ActC>> >>

\* The itinerary pane takes pointer events: a plan is shown and the loading
\* overlay does not cover it.
PaneActive == plan # NoPlan /\ ~loading

---------------------------------------------------------------------------
\* Region selection and planning

\* The variables of App and ItineraryList but areaSelections.
appButAreas == <<plan, itineraries, loading, error, selectedDayIndex,
                 savedPlans, isRefreshingLogistics, isReplacing,
                 planRequests, refreshes, replaces, rejected, nextId, ops>>

\* The surroundings but HomeMap, and but HomeMap and TripInput.
sideButHome == <<destination, defaultPrevented, request, itineraryWidth,
                 isResizing, containerWidth, tripMap, logistics, drag,
                 lastReorder>>
sideButHomeAndForm == <<itineraryWidth, isResizing, containerWidth, tripMap,
                        logistics, drag, lastReorder>>

\* HomeMap is unmounted ({!plan && <HomeMap>} turns false): the next
\* instance starts from the initial values.
UnmountHomeMap == homeMap' = HomeMapInit /\ UNCHANGED sideButHome

\* HomeMap is rendered and takes pointer events: no plan, and the loading
\* overlay does not cover the map.
HomeActive == plan = NoPlan /\ ~loading

\* TripInput is rendered: !plan && !loading && areaSelections.length > 0
FormShown == plan = NoPlan /\ ~loading /\ Len(areaSelections) > 0

\* An effect that leaves the typed destination.
DestinationKept(selectedAreas) == destination

\* TripInput's useEffect on selectedAreas:
\* if (selectedAreas.length > 0) setDestination('')
DestinationAfter(selectedAreas) ==
    IF Len(selectedAreas) > 0 THEN "" ELSE destination

\* App.setAreaSelections(bounds), as HomeMap's onAreasSelect and in
\* onClearSelection, with TripInput's effect on the new list.
onAreasSelect(bounds) ==
    /\ areaSelections' = bounds
    /\ destination' = DestinationAfter(bounds)
    /\ UNCHANGED appButAreas
    /\ UNCHANGED <<defaultPrevented, request>>
    /\ UNCHANGED sideButHomeAndForm

\* HomeMap.handleDrawComplete -> onAreasSelect([...selectedAreas, newBounds])
handleDrawComplete(newBounds) ==
    onAreasSelect(Append(areaSelections, newBounds))

\* The points of the map a pointer event can report, on a grid of 50 m.
DrawPoints ==
    {[lat |-> 0, lng |-> 0], [lat |-> 0, lng |-> 2], [lat |-> 0, lng |-> 3],
     [lat |-> 3, lng |-> 3]}

\* The views the map can be panned to.
MapViews == {Box, [north |-> 4, south |-> 0, east |-> 4, west |-> 0]}

Min(a, b) == IF a < b THEN a ELSE b
Max(a, b) == IF a > b THEN a ELSE b

\* L.latLngBounds(a, b) read through getNorth, getSouth, getEast, getWest.
latLngBounds(a, b) ==
    [north |-> Max(a.lat, b.lat), south |-> Min(a.lat, b.lat),
     east |-> Max(a.lng, b.lng), west |-> Min(a.lng, b.lng)]

\* a.distanceTo(b) > 100, on the grid of 50 m: the distance is over two
\* grid steps.
FartherThan100m(a, b) ==
    (a.lat - b.lat) * (a.lat - b.lat) + (a.lng - b.lng) * (a.lng - b.lng) > 4

\* HomeMap's "Draw Area" button: setIsDrawingMode(!isDrawingMode)
toggleDrawingMode ==
    /\ HomeActive
    /\ homeMap' = [homeMap EXCEPT !.isDrawingMode = ~@]
    /\ UNCHANGED <<areaSelections, appButAreas, sideButHome>>

\* AreaDrawer mousedown(e)
mousedown(latlng) ==
    /\ HomeActive
    /\ homeMap.isDrawingMode
    /\ homeMap' = [homeMap EXCEPT !.startPoint = latlng,
                                  !.currentPoint = latlng]
    /\ UNCHANGED <<areaSelections, appButAreas, sideButHome>>

\* AreaDrawer mousemove(e)
mousemove(latlng) ==
    /\ HomeActive
    /\ homeMap.isDrawingMode /\ homeMap.startPoint # NoPoint
    /\ homeMap' = [homeMap EXCEPT !.currentPoint = latlng]
    /\ UNCHANGED <<areaSelections, appButAreas, sideButHome>>

\* A mouseup that appends where the original does not, and the reverse.
mouseupThresholdInverted ==
    /\ HomeActive
    /\ homeMap.isDrawingMode
    /\ homeMap.startPoint # NoPoint /\ homeMap.currentPoint # NoPoint
    /\ IF ~FartherThan100m(homeMap.startPoint, homeMap.currentPoint)
       THEN /\ Len(areaSelections) < MaxRegions
            /\ handleDrawComplete(latLngBounds(homeMap.startPoint,
                                               homeMap.currentPoint))
       ELSE UNCHANGED <<areaSelections, appButAreas, sideButHome>>
    /\ homeMap' = [homeMap EXCEPT !.startPoint = NoPoint,
                                  !.currentPoint = NoPoint]

\* AreaDrawer mouseup()
mouseup ==
    /\ HomeActive
    /\ homeMap.isDrawingMode
    /\ homeMap.startPoint # NoPoint /\ homeMap.currentPoint # NoPoint
    /\ IF FartherThan100m(homeMap.startPoint, homeMap.currentPoint)
       THEN /\ Len(areaSelections) < MaxRegions
            /\ handleDrawComplete(latLngBounds(homeMap.startPoint,
                                               homeMap.currentPoint))
       ELSE UNCHANGED <<areaSelections, appButAreas, sideButHome>>
    /\ homeMap' = [homeMap EXCEPT !.startPoint = NoPoint,
                                  !.currentPoint = NoPoint]

\* The user pans or zooms the home map to another view.
panMap(view) ==
    /\ HomeActive
    /\ homeMap.bounds # view
    /\ homeMap' = [homeMap EXCEPT !.bounds = view]
    /\ UNCHANGED <<areaSelections, appButAreas, sideButHome>>

\* A "Select Whole View" that only counts the click.
SelectVisibleLevel ==
    /\ HomeActive
    /\ homeMap.selectVisibleTrigger < MaxTrigger
    /\ homeMap' = [homeMap EXCEPT !.selectVisibleTrigger = @ + 1]
    /\ UNCHANGED <<areaSelections, appButAreas, sideButHome>>

\* HomeMap.handleSelectVisible and the effect of SelectVisibleHelper that
\* the new trigger value runs: onSelect(map.getBounds()).
handleSelectVisible ==
    /\ HomeActive
    /\ homeMap.selectVisibleTrigger < MaxTrigger
    /\ homeMap' = [homeMap EXCEPT !.selectVisibleTrigger = @ + 1]
    /\ handleDrawComplete(homeMap.bounds)

\* An undo that drops the first selection.
UndoFirst ==
    /\ HomeActive
    /\ IF Len(areaSelections) > 0
       THEN onAreasSelect(Tail(areaSelections))
       ELSE UNCHANGED <<areaSelections, appButAreas, sideButHome>>
    /\ UNCHANGED homeMap

\* HomeMap.handleUndo (its button is rendered for a non-empty list)
handleUndo ==
    /\ HomeActive
    /\ IF Len(areaSelections) > 0
       THEN onAreasSelect(SubSeq(areaSelections, 1, Len(areaSelections) - 1))
       ELSE UNCHANGED <<areaSelections, appButAreas, sideButHome>>
    /\ UNCHANGED homeMap

\* TripInput's onClearSelection: () => setAreaSelections([])
onClearSelection ==
    /\ FormShown
    /\ onAreasSelect(<<>>)
    /\ UNCHANGED homeMap

\* The texts typed as a destination.
Texts == {"", " ", "  ", "Rome", "Rome ", "Oslo", "Lima"}

\* text.trim(), for the texts of the model.
Trim(text) ==
    CASE text \in {" ", "  "} -> ""
      [] text = "Rome " -> "Rome"
      [] OTHER -> text

\* TripInput's destination field, rendered while selectedAreas is empty:
\* onChange -> setDestination(e.target.value)
setDestination(text) ==
    /\ Len(areaSelections) = 0
    /\ destination' = text
    /\ UNCHANGED <<areaSelections, appButAreas, homeMap, defaultPrevented,
                   request, sideButHomeAndForm>>

\* The TripRequest handleSubmit builds.
TripRequest ==
    [destination |-> destination,
     selectedAreas |-> IF Len(areaSelections) > 0
                       THEN NotNull(areaSelections) ELSE Null]

\* App.handlePlanTrip(request) up to its await.
handlePlanTrip(req) ==
    /\ nextId + planRequests < MaxPlans
    /\ request' = req
    /\ loading' = TRUE
    /\ error' = ""
    /\ plan' = NoPlan
    /\ isReplacing' = FALSE
    /\ replaces' = Unmounted(replaces)
    /\ planRequests' = planRequests + 1
    /\ UNCHANGED <<itineraries, selectedDayIndex, areaSelections,
                   savedPlans, isRefreshingLogistics, refreshes, rejected,
                   nextId, ops>>
    /\ UNCHANGED <<homeMap, sideButHomeAndForm>>

\* An onPlanTrip that only takes the request.
onPlanTripStub(req) ==
    /\ request' = req
    /\ UNCHANGED <<areaSelections, appButAreas, homeMap, sideButHomeAndForm>>

\* The onPlanTrip prop of TripInput: App passes handlePlanTrip.
onPlanTrip(parent, req) ==
    IF parent = "App" THEN handlePlanTrip(req) ELSE onPlanTripStub(req)

\* A handleSubmit without the guard.
SubmitUnguarded(parent) ==
    /\ defaultPrevented' = TRUE
    /\ onPlanTrip(parent, TripRequest)
    /\ UNCHANGED destination

\* TripInput.handleSubmit
handleSubmit(parent) ==
    /\ defaultPrevented' = TRUE
    /\ IF Trim(destination) = "" /\ Len(areaSelections) = 0
       THEN UNCHANGED <<areaSelections, appButAreas, homeMap, request,
                        sideButHomeAndForm>>
       ELSE onPlanTrip(parent, TripRequest)
    /\ UNCHANGED destination

\* The form of the App is submitted.
onSubmit ==
    /\ FormShown
    /\ handleSubmit("App")

\* The user types into the destination field of the App's form.
typeDestination(text) ==
    /\ FormShown
    /\ setDestination(text)

\* generateTripPlan resolved: data.id = crypto.randomUUID(); setPlan(result);
\* setSelectedDayIndex(0); finally setLoading(false).
PlanTripOk(stay) ==
    /\ planRequests > 0
    /\ LET id == nextId + 1
           result == [id |-> id, destination |-> "Paris", itinerary |-> id,
                      stayLocation |-> stay, createdAt |-> 0,
                      centerCoordinates |-> Coordinates(5)]
       IN /\ nextId' = id
          /\ itineraries' = [itineraries EXCEPT ![id] = GeneratedDays]
          /\ plan' = result
    /\ selectedDayIndex' = 0
    /\ loading' = FALSE
    /\ planRequests' = planRequests - 1
    /\ UNCHANGED <<error, areaSelections, savedPlans, isRefreshingLogistics,
                   isReplacing, refreshes, replaces, rejected, ops>>
    /\ UnmountHomeMap

\* A failure handler that only logs, as the refresh's does.
PlanTripFailSilent ==
    /\ planRequests > 0
    /\ loading' = FALSE
    /\ planRequests' = planRequests - 1
    /\ UNCHANGED <<plan, itineraries, error, selectedDayIndex, areaSelections,
                   savedPlans, isRefreshingLogistics, isReplacing,
                   refreshes, replaces, rejected, nextId, ops>>
    /\ UNCHANGED side

\* generateTripPlan rejected: setError(...); finally setLoading(false).
PlanTripFail ==
    /\ planRequests > 0
    /\ error' = "Something went wrong. Please try a different area."
    /\ loading' = FALSE
    /\ planRequests' = planRequests - 1
    /\ UNCHANGED <<plan, itineraries, selectedDayIndex, areaSelections,
                   savedPlans, isRefreshingLogistics, isReplacing,
                   refreshes, replaces, rejected, nextId, ops>>
    /\ UNCHANGED side

\* App.resetApp (the header logo and "New Plan")
resetApp ==
    /\ plan' = NoPlan
    /\ areaSelections' = <<>>
    /\ isReplacing' = FALSE
    /\ replaces' = Unmounted(replaces)
    /\ UNCHANGED <<itineraries, loading, error, selectedDayIndex,
                   savedPlans, isRefreshingLogistics, planRequests,
                   refreshes, rejected, nextId, ops>>
    /\ drag' = DragInit
    /\ UNCHANGED <<sideButDrag, lastReorder>>

\* ItineraryList day buttons: onDaySelect(index) = setSelectedDayIndex
onDaySelect(index) ==
    /\ PaneActive
    /\ index \in 0..(Len(Days(plan)) - 1)
    /\ selectedDayIndex' = index
    /\ UNCHANGED <<plan, itineraries, loading, error, areaSelections,
                   savedPlans, isRefreshingLogistics, isReplacing,
                   planRequests, refreshes, replaces, rejected, nextId, ops>>
    /\ UNCHANGED side

---------------------------------------------------------------------------
\* The saved-plan archive

\* savedPlans.filter(p => p.id !== id)
WithoutId(saved, id) ==
    LET Keep(p) == p.id # id IN SelectSeq(saved, Keep)

\* A save that adds the entry without removing the one it replaces.
UpsertKeepsOld(saved, planToSave, now) ==
    <<[planToSave EXCEPT !.createdAt = now]>> \o saved

\* App.handleSavePlan(planToSave) at time now.
Upsert(saved, planToSave, now) ==
    <<[planToSave EXCEPT !.createdAt = now]>> \o WithoutId(saved, planToSave.id)

\* ItineraryList.handleSave -> onSavePlan({...plan, postcardUrl})
handleSavePlan(now) ==
    /\ PaneActive
    /\ savedPlans' = Upsert(savedPlans, plan, now)
    /\ UNCHANGED <<plan, itineraries, loading, error, selectedDayIndex,
                   areaSelections, isRefreshingLogistics, isReplacing,
                   planRequests, refreshes, replaces, rejected, nextId, ops>>
    /\ UNCHANGED side

\* App.handleDeleteSaved(e, id)
handleDeleteSaved(id) ==
    /\ \E k \in 1..Len(savedPlans) : savedPlans[k].id = id
    /\ savedPlans' = WithoutId(savedPlans, id)
    /\ UNCHANGED <<plan, itineraries, loading, error, selectedDayIndex,
                   areaSelections, isRefreshingLogistics, isReplacing,
                   planRequests, refreshes, replaces, rejected, nextId, ops>>
    /\ UNCHANGED side

\* A load that leaves the selected day where it is.
loadKeepsSelectedDay(k) ==
    /\ k \in 1..Len(savedPlans)
    /\ plan' = savedPlans[k]
    /\ UNCHANGED <<itineraries, loading, error, selectedDayIndex,
                   areaSelections, savedPlans, isRefreshingLogistics,
                   isReplacing, planRequests, refreshes, replaces, rejected,
                   nextId, ops>>
    /\ UnmountHomeMap

\* App.loadSavedPlan(saved): the archive's own object becomes the live plan.
loadSavedPlan(k) ==
    /\ k \in 1..Len(savedPlans)
    /\ plan' = savedPlans[k]
    /\ selectedDayIndex' = 0
    /\ UNCHANGED <<itineraries, loading, error, areaSelections, savedPlans,
                   isRefreshingLogistics, isReplacing, planRequests,
                   refreshes, replaces, rejected, nextId, ops>>
    /\ UnmountHomeMap

---------------------------------------------------------------------------
\* Reorder and logistics refresh

\* A day's DayPlan gets another activities array: a pending
\* recalculateLogistics call that was given the old array keeps it, as it
\* is now (old).
Freeze(rs, ref, dayIndex, old) ==
    [k \in 1..Len(rs) |->
        IF rs[k].live /\ rs[k].updatedPlan.itinerary = ref
                      /\ rs[k].dayIndex = dayIndex
        THEN [rs[k] EXCEPT !.live = FALSE, !.activities = old]
        ELSE rs[k]]

\* The permutations of a list.
PermutationsOf(s) ==
    {[i \in 1..Len(s) |-> s[f[i]]] :
        f \in {g \in [1..Len(s) -> 1..Len(s)] :
                  \A i, j \in 1..Len(s) : g[i] = g[j] => i = j}}

\* A reorder that waits for the refresh instead of applying the new order
\* at once.
ReorderNotOptimistic(dayIndex, newActivities) ==
    /\ PaneActive
    /\ ops < MaxOps
    /\ refreshes' =
           Append(refreshes,
                  [dayIndex |-> dayIndex, updatedPlan |-> plan,
                   live |-> FALSE, activities |-> newActivities])
    /\ isRefreshingLogistics' = TRUE
    /\ ops' = ops + 1
    /\ UNCHANGED <<plan, itineraries, loading, error, selectedDayIndex,
                   areaSelections, savedPlans, isReplacing, planRequests,
                   replaces, rejected, nextId>>
    /\ lastReorder' = [dayIndex |-> dayIndex, itinerary |-> plan.itinerary,
                       newActivities |-> newActivities]
    /\ UNCHANGED sideButDrag

\* A reorder that is refused while a refresh is pending.
ReorderBlockedWhilePending(dayIndex, newActivities) ==
    /\ PaneActive
    /\ ops < MaxOps
    /\ ~isRefreshingLogistics
    /\ LET ref == plan.itinerary
           old == itineraries[ref][dayIndex + 1]
       IN /\ itineraries' =
                 [itineraries EXCEPT ![ref][dayIndex + 1] = newActivities]
          /\ plan' = plan
          /\ refreshes' =
                 Append(Freeze(refreshes, ref, dayIndex, old),
                        [dayIndex |-> dayIndex, updatedPlan |-> plan,
                         live |-> TRUE, activities |-> <<>>])
    /\ isRefreshingLogistics' = TRUE
    /\ ops' = ops + 1
    /\ UNCHANGED <<loading, error, selectedDayIndex, areaSelections,
                   savedPlans, isReplacing, planRequests, replaces,
                   rejected, nextId>>
    /\ lastReorder' = [dayIndex |-> dayIndex, itinerary |-> plan.itinerary,
                       newActivities |-> newActivities]
    /\ UNCHANGED sideButDrag

\* App.handleReorderActivities(dayIndex, newActivities) up to its await.
handleReorderActivities(dayIndex, newActivities) ==
    /\ PaneActive
    /\ ops < MaxOps
    /\ LET ref == plan.itinerary
           updatedPlan == plan
           old == itineraries[ref][dayIndex + 1]
       IN /\ itineraries' =
                 [itineraries EXCEPT ![ref][dayIndex + 1] = newActivities]
          /\ plan' = updatedPlan
          /\ refreshes' =
                 Append(Freeze(refreshes, ref, dayIndex, old),
                        [dayIndex |-> dayIndex, updatedPlan |-> updatedPlan,
                         live |-> TRUE, activities |-> <<>>])
    /\ isRefreshingLogistics' = TRUE
    /\ ops' = ops + 1
    /\ UNCHANGED <<loading, error, selectedDayIndex, areaSelections,
                   savedPlans, isReplacing, planRequests, replaces,
                   rejected, nextId>>
    /\ lastReorder' = [dayIndex |-> dayIndex, itinerary |-> plan.itinerary,
                       newActivities |-> newActivities]
    /\ UNCHANGED sideButDrag

\* ItineraryList.onDrop -> onReorderActivities(selectedDayIndex, newActivities)
\* for any order of the day's activities; setDraggedIndex(null) and
\* setDropTargetIndex(null) follow the call.
onReorderActivities ==
    /\ PaneActive
    /\ \E newActivities \in PermutationsOf(Days(plan)[selectedDayIndex + 1]) :
        handleReorderActivities(selectedDayIndex, newActivities)
    /\ drag' = DragInit

\* array.splice(index, 1) on a copy: the array that is left and the element
\* taken out, undefined when index is past the end.
SpliceOut(array, index) ==
    IF index + 1 \in 1..Len(array)
    THEN [rest |-> RemoveAt(array, index + 1), item |-> array[index + 1]]
    ELSE [rest |-> array, item |-> NoActivity]

\* array.splice(index, 0, item): item goes in at index, at the end when
\* index is past it.
SpliceIn(array, index, item) ==
    LET at == IF index < Len(array) THEN index ELSE Len(array)
    IN SubSeq(array, 1, at) \o <<item>> \o SubSeq(array, at + 1, Len(array))

\* ItineraryList.onDragStart(e, index)
onDragStart(index) ==
    /\ PaneActive
    /\ index \in 0..(Len(Days(plan)[selectedDayIndex + 1]) - 1)
    /\ drag' = [drag EXCEPT !.draggedIndex = index]
    /\ UNCHANGED <<areaSelections, appButAreas, sideButDrag, lastReorder>>

\* ItineraryList.onDragOver(e, index)
onDragOver(index) ==
    /\ PaneActive
    /\ index \in 0..(Len(Days(plan)[selectedDayIndex + 1]) - 1)
    /\ drag' = IF drag.draggedIndex = index THEN drag
               ELSE [drag EXCEPT !.dropTargetIndex = index]
    /\ UNCHANGED <<areaSelections, appButAreas, sideButDrag, lastReorder>>

\* ItineraryList.onDrop(e, targetIndex): the drop event of the card at
\* targetIndex, whatever was dragged onto it.
onDrop(targetIndex) ==
    /\ PaneActive
    /\ targetIndex \in 0..(Len(Days(plan)[selectedDayIndex + 1]) - 1)
    /\ IF drag.draggedIndex = -1 \/ drag.draggedIndex = targetIndex
       THEN UNCHANGED <<areaSelections, appButAreas, sideButDrag,
                        lastReorder>>
       ELSE LET currentDay == Days(plan)[selectedDayIndex + 1]
                out == SpliceOut(currentDay, drag.draggedIndex)
                newActivities == SpliceIn(out.rest, targetIndex, out.item)
            IN handleReorderActivities(selectedDayIndex, newActivities)
    /\ drag' = DragInit

\* One entry of the collaborator's answer, reduced to the fields that
\* recalculateLogistics reads; "" is a field that is missing or empty.
NoLogistics == [time |-> "", travelDistance |-> "", travelTime |-> ""]

LogisticsEntry(i) ==
    [time |-> <<"08:00", "10:00", "12:00", "14:00">>[i],
     travelDistance |-> <<"1 km", "2 km", "3 km", "4 km">>[i],
     travelTime |-> <<"1 min", "2 min", "3 min", "4 min">>[i]]

\* Answers JSON.parse(response.text) can give for n activities: one entry
\* per activity, or one entry fewer.
LogisticsResponses(n) ==
    { [i \in 1..n |-> LogisticsEntry(i)],
      [i \in 1..(n - 1) |-> LogisticsEntry(i)] }

\* updatedLogistics[i]?.field
EntryAt(updatedLogistics, i) ==
    IF i \in 1..Len(updatedLogistics) THEN updatedLogistics[i] ELSE NoLogistics

\* JavaScript a || b on strings
OrElse(a, b) == IF a # "" THEN a ELSE b

\* A recalculateLogistics that returns the collaborator's entries without
\* the fallbacks of the original.
RecalculateNoFallback(activities, updatedLogistics) ==
    [i \in 1..Len(activities) |->
        [activities[i] EXCEPT
            !.time = EntryAt(updatedLogistics, i).time,
            !.travelDistance = EntryAt(updatedLogistics, i).travelDistance,
            !.travelTime = EntryAt(updatedLogistics, i).travelTime]]

\* A recalculateLogistics with one entry per entry of the answer, up to the
\* length of the input.
RecalculateOverResponse(activities, updatedLogistics) ==
    [i \in 1..(IF Len(updatedLogistics) < Len(activities)
               THEN Len(updatedLogistics) ELSE Len(activities)) |->
        [activities[i] EXCEPT
            !.time = OrElse(updatedLogistics[i].time, @),
            !.travelDistance = OrElse(updatedLogistics[i].travelDistance, ""),
            !.travelTime = OrElse(updatedLogistics[i].travelTime, "")]]

\* recalculateLogistics: activities.map((original, i) => ({...original, ...}))
recalculateLogistics(activities, updatedLogistics) ==
    [i \in 1..Len(activities) |->
        [activities[i] EXCEPT
            !.time = OrElse(EntryAt(updatedLogistics, i).time, @),
            !.travelDistance =
                OrElse(EntryAt(updatedLogistics, i).travelDistance, ""),
            !.travelTime =
                OrElse(EntryAt(updatedLogistics, i).travelTime, "")]]

\* The array a pending recalculateLogistics call maps over.
GivenActivities(r) ==
    IF r.live THEN itineraries[r.updatedPlan.itinerary][r.dayIndex + 1]
    ELSE r.activities

\* handleReorderActivities after its await, the call resolved.
RefreshOk(k, updatedLogistics) ==
    /\ k \in 1..Len(refreshes)
    /\ LET r == refreshes[k]
           ref == r.updatedPlan.itinerary
           syncedActivities ==
               recalculateLogistics(GivenActivities(r), updatedLogistics)
           finalPlan == r.updatedPlan
       IN /\ itineraries' =
                 [itineraries EXCEPT ![ref][r.dayIndex + 1] = syncedActivities]
          /\ plan' = finalPlan
          /\ refreshes' = Freeze(RemoveAt(refreshes, k), ref, r.dayIndex,
                                 itineraries[ref][r.dayIndex + 1])
    /\ isRefreshingLogistics' = FALSE
    /\ UNCHANGED <<loading, error, selectedDayIndex, areaSelections,
                   savedPlans, isReplacing, planRequests, replaces,
                   rejected, nextId, ops>>
    /\ UnmountHomeMap

\* A failure handler that reports the failure as handlePlanTrip does.
RefreshFailSetsError(k) ==
    /\ k \in 1..Len(refreshes)
    /\ refreshes' = RemoveAt(refreshes, k)
    /\ isRefreshingLogistics' = FALSE
    /\ error' = "Something went wrong. Please try a different area."
    /\ UNCHANGED <<plan, itineraries, loading, selectedDayIndex,
                   areaSelections, savedPlans, isReplacing, planRequests,
                   replaces, rejected, nextId, ops>>
    /\ UNCHANGED side

\* A failure handler without the finally clause: the flag is left set.
RefreshFailKeepsFlag(k) ==
    /\ k \in 1..Len(refreshes)
    /\ refreshes' = RemoveAt(refreshes, k)
    /\ UNCHANGED <<plan, itineraries, loading, error, selectedDayIndex,
                   areaSelections, savedPlans, isRefreshingLogistics,
                   isReplacing, planRequests, replaces, rejected, nextId,
                   ops>>
    /\ UNCHANGED side

\* handleReorderActivities after its await, the call rejected:
\* console.error only; finally setIsRefreshingLogistics(false).
RefreshFail(k) ==
    /\ k \in 1..Len(refreshes)
    /\ refreshes' = RemoveAt(refreshes, k)
    /\ isRefreshingLogistics' = FALSE
    /\ UNCHANGED <<plan, itineraries, loading, error, selectedDayIndex,
                   areaSelections, savedPlans, isReplacing, planRequests,
                   replaces, rejected, nextId, ops>>
    /\ UNCHANGED side

RefreshResponse ==
    \E k \in 1..Len(refreshes) :
        \/ \E updatedLogistics \in
               LogisticsResponses(Len(GivenActivities(refreshes[k]))) :
               RefreshOk(k, updatedLogistics)
        \/ RefreshFail(k)

---------------------------------------------------------------------------
\* Manual edit

\* An edit without the special case for -1: the stay location is written
\* into the day's list.
EditWithoutSentinel(dayIndex, activityIndex, updatedActivity) ==
    /\ PaneActive
    /\ ops < MaxOps
    /\ plan' = plan
    /\ itineraries' =
           [itineraries EXCEPT
               ![plan.itinerary][dayIndex + 1] =
                   IF activityIndex = -1
                   THEN Append(@, updatedActivity)
                   ELSE [@ EXCEPT ![activityIndex + 1] = updatedActivity]]
    /\ ops' = ops + 1
    /\ UNCHANGED <<loading, error, selectedDayIndex, areaSelections,
                   savedPlans, isRefreshingLogistics, isReplacing,
                   planRequests, refreshes, replaces, rejected, nextId>>
    /\ UNCHANGED side

\* App.handleEditActivity(dayIndex, activityIndex, updatedActivity)
handleEditActivity(dayIndex, activityIndex, updatedActivity) ==
    /\ PaneActive
    /\ ops < MaxOps
    /\ IF activityIndex = -1
       THEN /\ plan' = [plan EXCEPT !.stayLocation = updatedActivity]
            /\ UNCHANGED itineraries
       ELSE /\ plan' = plan
            /\ itineraries' =
                   [itineraries EXCEPT
                       ![plan.itinerary][dayIndex + 1][activityIndex + 1] =
                           updatedActivity]
    /\ ops' = ops + 1
    /\ UNCHANGED <<loading, error, selectedDayIndex, areaSelections,
                   savedPlans, isRefreshingLogistics, isReplacing,
                   planRequests, refreshes, replaces, rejected, nextId>>
    /\ UNCHANGED side

\* What the detail dialog can hold in selectedActivity: an activity of the
\* selected day with its index, or the stay location with index -1.
Selectable ==
    {[index |-> i - 1, activity |-> Days(plan)[selectedDayIndex + 1][i]] :
        i \in 1..Len(Days(plan)[selectedDayIndex + 1])}
    \cup (IF plan.stayLocation # NoActivity
          THEN {[index |-> -1, activity |-> plan.stayLocation]} ELSE {})

\* ItineraryList.saveEdit:
\* onEditActivity(selectedDayIndex, selectedActivity.index, updated)
saveEdit ==
    /\ PaneActive
    /\ \E selectedActivity \in Selectable :
        LET updated == [selectedActivity.activity EXCEPT
                           !.name = "Edited", !.description = "my notes"]
        IN handleEditActivity(selectedDayIndex, selectedActivity.index, updated)

---------------------------------------------------------------------------
\* Replacement ("Swap Spot")

RECURSIVE FlatNames(_)
\* plan.itinerary.flatMap(day => day.activities.map(act => act.name))
FlatNames(days) ==
    IF days = <<>> THEN <<>>
    ELSE [i \in 1..Len(Head(days)) |-> Head(days)[i].name]
         \o FlatNames(Tail(days))

\* ItineraryList.handleReplace and App.handleReplaceActivity up to the await.
handleReplaceActivity(dayIndex, activityIndex, currentActivity) ==
    /\ PaneActive
    /\ ~isReplacing
    /\ ops < MaxOps
    /\ isReplacing' = TRUE
    /\ replaces' =
           Append(replaces,
                  [dayIndex |-> dayIndex, activityIndex |-> activityIndex,
                   currentActivity |-> currentActivity, plan |-> plan,
                   excludedPlaces |-> FlatNames(Days(plan)),
                   mounted |-> TRUE])
    /\ ops' = ops + 1
    /\ UNCHANGED <<plan, itineraries, loading, error, selectedDayIndex,
                   areaSelections, savedPlans, isRefreshingLogistics,
                   planRequests, refreshes, rejected, nextId>>
    /\ UNCHANGED side

handleReplace ==
    /\ PaneActive
    /\ \E selectedActivity \in Selectable :
        handleReplaceActivity(selectedDayIndex, selectedActivity.index,
                              selectedActivity.activity)

\* What generateReplacementActivity can return (JSON.parse(response.text)):
\* a new place, one whose name the itinerary already has, or the place of
\* the stay location, which excludedPlaces does not name.
Replacements ==
    {Activity("R", 5, "landmark", "12:00"), Activity("C", 3, "relax", "15:00"),
     Activity("Hotel", 9, "landmark", "13:00")}

\* handleReplaceActivity after its await, the call resolved; then
\* handleReplace's finally.  An index of -1 writes the array's property
\* "-1", which is no element of it.
ReplaceOk(k, newActivity) ==
    /\ k \in 1..Len(replaces)
    /\ LET r == replaces[k]
           newPlan == r.plan
       IN /\ itineraries' =
                 IF r.activityIndex >= 0
                 THEN [itineraries EXCEPT
                          ![newPlan.itinerary][r.dayIndex + 1]
                           [r.activityIndex + 1] = newActivity]
                 ELSE itineraries
          /\ plan' = newPlan
          /\ isReplacing' = IF r.mounted THEN FALSE ELSE isReplacing
    /\ replaces' = RemoveAt(replaces, k)
    /\ UNCHANGED <<loading, error, selectedDayIndex, areaSelections,
                   savedPlans, isRefreshingLogistics, planRequests,
                   refreshes, rejected, nextId, ops>>
    /\ UnmountHomeMap

\* A failure handler that logs and resolves, as the refresh's does.
ReplaceFailSwallowed(k) ==
    /\ k \in 1..Len(replaces)
    /\ isReplacing' = IF replaces[k].mounted THEN FALSE ELSE isReplacing
    /\ replaces' = RemoveAt(replaces, k)
    /\ UNCHANGED <<plan, itineraries, loading, error, selectedDayIndex,
                   areaSelections, savedPlans, isRefreshingLogistics,
                   planRequests, refreshes, rejected, nextId, ops>>
    /\ UNCHANGED side

\* handleReplaceActivity after its await, the call rejected: throw err;
\* handleReplace's finally runs and its promise rejects.
ReplaceFail(k) ==
    /\ k \in 1..Len(replaces)
    /\ isReplacing' = IF replaces[k].mounted THEN FALSE ELSE isReplacing
    /\ rejected' = rejected + 1
    /\ replaces' = RemoveAt(replaces, k)
    /\ UNCHANGED <<plan, itineraries, loading, error, selectedDayIndex,
                   areaSelections, savedPlans, isRefreshingLogistics,
                   planRequests, refreshes, nextId, ops>>
    /\ UNCHANGED side

ReplaceResponse ==
    \E k \in 1..Len(replaces) :
        \/ \E newActivity \in Replacements : ReplaceOk(k, newActivity)
        \/ ReplaceFail(k)

---------------------------------------------------------------------------
\* The resizable pane

\* The surroundings but the layout state of App.
sideButLayout == <<homeMap, destination, defaultPrevented, request, tripMap,
                   logistics, drag, lastReorder>>

\* The divider's onMouseDown / onTouchStart: startResizing
startResizing ==
    /\ PaneActive
    /\ isResizing' = TRUE
    /\ UNCHANGED <<areaSelections, appButAreas, sideButLayout,
                   itineraryWidth, containerWidth>>

\* window mouseup / touchend while the listeners are attached: stopResizing
stopResizing ==
    /\ isResizing
    /\ isResizing' = FALSE
    /\ UNCHANGED <<areaSelections, appButAreas, sideButLayout,
                   itineraryWidth, containerWidth>>

\* A resize that accepts the two ends of the band.
resizeClosedBand(clientX, containerLeft) ==
    /\ LET newWidth == clientX - containerLeft
       IN itineraryWidth' =
             IF isResizing /\ newWidth >= 320
                           /\ 4 * newWidth <= 3 * containerWidth
             THEN newWidth ELSE itineraryWidth
    /\ UNCHANGED <<areaSelections, appButAreas, sideButLayout, isResizing,
                   containerWidth>>

\* App.resize(e) for a mousemove or touchmove at clientX, the container's
\* left edge at containerLeft; newWidth < containerWidth * 0.75 is
\* 4 * newWidth < 3 * containerWidth.
resize(clientX, containerLeft) ==
    /\ LET newWidth == clientX - containerLeft
       IN itineraryWidth' =
             IF isResizing /\ newWidth > 320
                           /\ 4 * newWidth < 3 * containerWidth
             THEN newWidth ELSE itineraryWidth
    /\ UNCHANGED <<areaSelections, appButAreas, sideButLayout, isResizing,
                   containerWidth>>

\* The browser window, and with it the container, gets another width.
resizeWindow(width) ==
    /\ width # containerWidth
    /\ containerWidth' = width
    /\ UNCHANGED <<areaSelections, appButAreas, sideButLayout, isResizing,
                   itineraryWidth>>

\* Pointer positions, left edges and container widths of the model.
PointerXs == {0, 8, 320, 321, 328, 329, 330, 331, 338, 339, 480, 959, 960, 961}
ContainerLefts == {0, 8}
ContainerWidths == {440, 1280}

---------------------------------------------------------------------------
\* TripMap

\* The surroundings but TripMap's drawing.
sideButTripMap == <<homeMap, destination, defaultPrevented, request,
                    itineraryWidth, isResizing, containerWidth, logistics,
                    drag, lastReorder>>

\* No bounds (null) and no setView call.
NoBounds == [north |-> -1, south |-> -1, east |-> -1, west |-> -1]
NoView == [center |-> <<-1, -1>>, zoom |-> -1]

\* A path that returns to no stay location at its end.
PathWithoutReturn(p, selectedDay) ==
    LET activities == Days(p)[selectedDay + 1]
        positions == [i \in 1..Len(activities) |->
                         <<activities[i].location.lat,
                           activities[i].location.lng>>]
        stayPos == <<p.stayLocation.location.lat, p.stayLocation.location.lng>>
    IN IF p.stayLocation # NoActivity
       THEN <<stayPos>> \o positions
       ELSE positions

\* TripMap: pathPositions
pathPositions(p, selectedDay) ==
    LET activities == Days(p)[selectedDay + 1]
        positions == [i \in 1..Len(activities) |->
                         <<activities[i].location.lat,
                           activities[i].location.lng>>]
        stayPos == <<p.stayLocation.location.lat, p.stayLocation.location.lng>>
    IN IF p.stayLocation # NoActivity
       THEN <<stayPos>> \o positions \o <<stayPos>>
       ELSE positions

\* L.latLngBounds(positions), for a non-empty list of [lat, lng]
BoundsOfPath(positions) ==
    LET lats == {positions[i][1] : i \in 1..Len(positions)}
        lngs == {positions[i][2] : i \in 1..Len(positions)}
        Most(S) == CHOOSE x \in S : \A y \in S : x >= y
        Least(S) == CHOOSE x \in S : \A y \in S : x <= y
    IN [north |-> Most(lats), south |-> Least(lats),
        east |-> Most(lngs), west |-> Least(lngs)]

\* MapUpdater's effect: map.fitBounds(bounds) or map.setView(center, zoom)
MapUpdater(center, zoom, bounds) ==
    IF bounds # NoBounds
    THEN [fitBounds |-> bounds, setView |-> NoView]
    ELSE [fitBounds |-> NoBounds, setView |-> [center |-> center, zoom |-> zoom]]

\* TripMap renders for the live plan and the selected day.
renderTripMap ==
    /\ PaneActive
    /\ LET positions == pathPositions(plan, selectedDayIndex)
           bounds == IF Len(positions) > 0 THEN BoundsOfPath(positions)
                     ELSE NoBounds
       IN tripMap' =
             [pathPositions |-> positions,
              polyline |-> IF Len(positions) > 1 THEN positions ELSE <<>>,
              view |-> MapUpdater(<<plan.centerCoordinates.lat,
                                    plan.centerCoordinates.lng>>, 13, bounds)]
    /\ UNCHANGED <<areaSelections, appButAreas, sideButTripMap>>

---------------------------------------------------------------------------
\* recalculateLogistics on its own

\* The surroundings but the record of the call.
sideButLogistics == <<homeMap, destination, defaultPrevented, request,
                      itineraryWidth, isResizing, containerWidth, tripMap,
                      drag, lastReorder>>

\* Activity lists given to recalculateLogistics.
InputLists ==
    UNION {[1..n -> {ActA, ActB, ActC}] : n \in 0..2}

\* Entries of a collaborator's answer, with the name they carry: complete,
\* with a time only missing, with every field missing.
AnyEntries ==
    {[name |-> "B", time |-> "08:00", travelDistance |-> "1 km",
      travelTime |-> "1 min"],
     [name |-> "A", time |-> "10:00", travelDistance |-> "2 km",
      travelTime |-> "2 min"],
     [name |-> "C", time |-> "", travelDistance |-> "3 km",
      travelTime |-> "3 min"],
     [name |-> "", time |-> "", travelDistance |-> "", travelTime |-> ""]}

\* Answers of any length up to one entry more than the longest input.
AnyResponses == UNION {[1..n -> AnyEntries] : n \in 0..3}

\* recalculateLogistics(activities, ...) resolves, the collaborator having
\* answered updatedLogistics.
callRecalculateLogistics(activities, updatedLogistics) ==
    /\ logistics' =
           [activities |-> activities, updatedLogistics |-> updatedLogistics,
            result |-> recalculateLogistics(activities, updatedLogistics)]
    /\ UNCHANGED <<areaSelections, appButAreas, sideButLogistics>>

---------------------------------------------------------------------------
Next ==
    \/ Len(areaSelections) < MaxAreas /\ handleSelectVisible
    \/ onClearSelection
    \/ onSubmit
    \/ PlanTripOk(Hotel)
    \/ PlanTripFail
    \/ resetApp
    \/ \E index \in 0..1 : onDaySelect(index)
    \/ \E now \in 1..MaxClock : handleSavePlan(now)
    \/ \E id \in 1..MaxPlans : handleDeleteSaved(id)
    \/ \E k \in 1..MaxPlans : loadSavedPlan(k)
    \/ onReorderActivities
    \/ RefreshResponse
    \/ saveEdit
    \/ handleReplace
    \/ ReplaceResponse

Spec == Init /\ [][Next]_vars

---------------------------------------------------------------------------
\* The archive on its own, started from what localStorage held

MaxStored == 3

\* A plan saved by an earlier session.
StoredPlan(id) ==
    [id |-> id, destination |-> "Paris", itinerary |-> id,
     stayLocation |-> Hotel, createdAt |-> 0,
     centerCoordinates |-> Coordinates(5)]

\* The archives an earlier session can have left: the ids are distinct,
\* handleSavePlan having written every one of them.
StoredArchives ==
    {saved \in UNION {[1..n -> {StoredPlan(id) : id \in 1..MaxStored}] :
                         n \in 0..MaxStored} :
        \A i, j \in 1..Len(saved) : i # j => saved[i].id # saved[j].id}

\* App's state after the mount effect setSavedPlans(JSON.parse(data)).
InitArchive ==
    /\ SideInit
    /\ plan = NoPlan
    /\ itineraries = [r \in 1..MaxStored |-> GeneratedDays]
    /\ loading = FALSE
    /\ error = ""
    /\ selectedDayIndex = 0
    /\ areaSelections = <<>>
    /\ savedPlans \in StoredArchives
    /\ isRefreshingLogistics = FALSE
    /\ isReplacing = FALSE
    /\ planRequests = 0
    /\ refreshes = <<>>
    /\ replaces = <<>>
    /\ rejected = 0
    /\ nextId = MaxStored
    /\ ops = 0

NextArchive ==
    \/ \E now \in 1..MaxClock : handleSavePlan(now)
    \/ \E id \in 1..MaxStored : handleDeleteSaved(id)
    \/ \E k \in 1..MaxStored : loadSavedPlan(k)
    \/ \E index \in 0..1 : onDaySelect(index)
    \/ resetApp

SpecArchive == InitArchive /\ [][NextArchive]_vars

---------------------------------------------------------------------------
\* The divider of the plan view, after a stored plan was loaded

NextResize ==
    \/ \E k \in 1..MaxStored : loadSavedPlan(k)
    \/ resetApp
    \/ startResizing
    \/ stopResizing
    \/ \E clientX \in PointerXs : \E containerLeft \in ContainerLefts :
          resize(clientX, containerLeft)
    \/ \E width \in ContainerWidths : resizeWindow(width)

SpecResize == InitArchive /\ [][NextResize]_vars

---------------------------------------------------------------------------
\* TripMap for any plan

\* The days a stored plan can have: up to two activities each.
MapDays == [1..2 -> UNION {[1..n -> {ActA, ActB, ActC}] : n \in 0..2}]

\* A stored plan with any days, with or without a stay location, is shown.
InitMap ==
    /\ SideInit
    /\ \E stay \in {NoActivity, Hotel} :
          plan = [StoredPlan(1) EXCEPT !.stayLocation = stay]
    /\ \E days \in MapDays :
          itineraries = [r \in 1..MaxStored |->
                            IF r = 1 THEN days ELSE GeneratedDays]
    /\ loading = FALSE
    /\ error = ""
    /\ selectedDayIndex = 0
    /\ areaSelections = <<>>
    /\ savedPlans = <<>>
    /\ isRefreshingLogistics = FALSE
    /\ isReplacing = FALSE
    /\ planRequests = 0
    /\ refreshes = <<>>
    /\ replaces = <<>>
    /\ rejected = 0
    /\ nextId = MaxStored
    /\ ops = 0

NextMap ==
    \/ renderTripMap
    \/ \E index \in 0..1 : onDaySelect(index)

SpecMap == InitMap /\ [][NextMap]_vars

---------------------------------------------------------------------------
\* Reorders of stored plans, every recalculateLogistics call settling

NextSync ==
    \/ \E k \in 1..MaxStored : loadSavedPlan(k)
    \/ resetApp
    \/ onReorderActivities
    \/ RefreshResponse

\* The network layer settles every request: a pending call's promise
\* is resolved or rejected in the end.
SpecSync == InitArchive /\ [][NextSync]_vars /\ WF_vars(RefreshResponse)

---------------------------------------------------------------------------
\* Stored plans of one, two and three days

\* The days of the stored plan id: as many as its id.
StoredDays(id) == SubSeq(<<<<ActA, ActB>>, <<ActC>>, <<ActB>>>>, 1, id)

InitDays ==
    /\ SideInit
    /\ plan = NoPlan
    /\ itineraries = [r \in 1..MaxStored |-> StoredDays(r)]
    /\ loading = FALSE
    /\ error = ""
    /\ selectedDayIndex = 0
    /\ areaSelections = <<>>
    /\ savedPlans \in StoredArchives
    /\ isRefreshingLogistics = FALSE
    /\ isReplacing = FALSE
    /\ planRequests = 0
    /\ refreshes = <<>>
    /\ replaces = <<>>
    /\ rejected = 0
    /\ nextId = MaxStored
    /\ ops = 0

\* The App renders: with a plan, ItineraryList and TripMap read
\* plan.itinerary[selectedDayIndex], and a render that throws takes the
\* whole App down.
Rendered ==
    IF plan = NoPlan THEN TRUE
    ELSE selectedDayIndex + 1 \in 1..Len(Days(plan))

NextDays ==
    \/ Rendered /\ \E k \in 1..MaxStored : loadSavedPlan(k)
    \/ Rendered /\ resetApp
    \/ Rendered /\ \E index \in 0..(MaxStored - 1) : onDaySelect(index)
    \/ Rendered /\ onReorderActivities
    \/ Rendered /\ RefreshResponse
    \/ Rendered /\ handleReplace
    \/ Rendered /\ ReplaceResponse

SpecDays == InitDays /\ [][NextDays]_vars

---------------------------------------------------------------------------
\* Drag and drop in the list of a shown plan

NextDrag ==
    \/ \E index \in 0..1 : onDragStart(index)
    \/ \E index \in 0..1 : onDragOver(index)
    \/ \E targetIndex \in 0..1 : onDrop(targetIndex)
    \/ \E index \in 0..1 : onDaySelect(index)

SpecDrag == InitMap /\ [][NextDrag]_vars

---------------------------------------------------------------------------
\* recalculateLogistics for any answer

NextLogistics ==
    \E activities \in InputLists : \E updatedLogistics \in AnyResponses :
        callRecalculateLogistics(activities, updatedLogistics)

SpecLogistics == Init /\ [][NextLogistics]_vars

---------------------------------------------------------------------------
\* HomeMap, with the form of the App left alone

NextHome ==
    \/ toggleDrawingMode
    \/ \E latlng \in DrawPoints : mousedown(latlng)
    \/ \E latlng \in DrawPoints : mousemove(latlng)
    \/ mouseup
    \/ \E view \in MapViews : panMap(view)
    \/ Len(areaSelections) < MaxRegions /\ handleSelectVisible
    \/ handleUndo

SpecHome == Init /\ [][NextHome]_vars

---------------------------------------------------------------------------
\* TripInput on its own, under a parent that renders it with any selection

\* The selection lists the parent passes as selectedAreas.
FormAreas ==
    {<<>>, <<Box>>, <<[north |-> 4, south |-> 0, east |-> 4, west |-> 0]>>,
     <<Box, [north |-> 4, south |-> 0, east |-> 4, west |-> 0]>>,
     <<[north |-> 4, south |-> 0, east |-> 4, west |-> 0], Box>>}

\* The parent renders TripInput with another selectedAreas.
parentSelects(selectedAreas) ==
    /\ selectedAreas # areaSelections
    /\ onAreasSelect(selectedAreas)
    /\ UNCHANGED homeMap

NextForm ==
    \/ \E text \in Texts : setDestination(text)
    \/ \E selectedAreas \in FormAreas : parentSelects(selectedAreas)
    \/ handleSubmit("TripInput")

SpecForm == Init /\ [][NextForm]_vars

---------------------------------------------------------------------------
\* Properties

\* The activities of the live plan's days, before and after a step.
LiveDays == Days(plan)
LiveDaysAfter == itineraries'[plan'.itinerary]

\* The fields of an activity that are not logistics.
Identity(a) ==
    [name |-> a.name, description |-> a.description, location |-> a.location,
     type |-> a.type, price |-> a.price, items |-> a.items]

\* C1: right after reorderActivities(d, P), for P a permutation of day d's
\* list and before any response, day d's list is exactly P and every other
\* day's list is unchanged.
C1_ReorderAppliesAtOnce ==
    [][PaneActive =>
         \A P \in PermutationsOf(LiveDays[selectedDayIndex + 1]) :
            handleReorderActivities(selectedDayIndex, P) =>
               /\ plan' # NoPlan
               /\ Len(LiveDaysAfter) = Len(LiveDays)
               /\ LiveDaysAfter[selectedDayIndex + 1] = P
               /\ \A e \in 1..Len(LiveDays) :
                     e # selectedDayIndex + 1 => LiveDaysAfter[e] = LiveDays[e]
      ]_vars

\* A reorder to another order has just been applied to day 0 and its
\* refresh is pending.
C1_Witness ==
    /\ plan # NoPlan
    /\ selectedDayIndex = 0
    /\ Len(refreshes) = 1 /\ refreshes[1].live /\ refreshes[1].dayIndex = 0
    /\ refreshes[1].updatedPlan = plan
    /\ LiveDays = << <<ActB, ActA>>, <<ActC>> >>

C3_RefreshFailureKeepsReorder ==
    [][/\ \A k \in 1..Len(refreshes) :
             RefreshFail(k) =>
                /\ plan' = plan
                /\ itineraries' = itineraries
                /\ error' = error
                /\ isRefreshingLogistics' = FALSE
       /\ PaneActive =>
             \A P \in PermutationsOf(LiveDays[selectedDayIndex + 1]) :
                handleReorderActivities(selectedDayIndex, P) =>
                   /\ error' = error
                   /\ \A a \in Range(LiveDays[selectedDayIndex + 1]) :
                         Cardinality({i \in 1..Len(P) :
                             LiveDaysAfter[selectedDayIndex + 1][i] = a})
                         = Cardinality({i \in 1..Len(P) :
                               LiveDays[selectedDayIndex + 1][i] = a})
      ]_vars

\* The only refresh failed: day 0 is in the reordered order, its activities
\* are as generated, no error is shown and no sync is in progress.
C3_Witness ==
    /\ plan # NoPlan
    /\ ops = 1
    /\ refreshes = <<>>
    /\ ~isRefreshingLogistics
    /\ error = ""
    /\ LiveDays = << <<ActB, ActA>>, <<ActC>> >>

\* C4: editActivity(day, -1, patch) sets stayLocation to the patch and
\* leaves every day's list unchanged; with an index >= 0 it replaces exactly
\* that element and leaves stayLocation and every other element unchanged.
C4_EditTargetsOneSlot ==
    [][PaneActive =>
         \A sel \in Selectable :
            LET patch == [sel.activity EXCEPT !.name = "Edited",
                                              !.description = "my notes"]
            IN handleEditActivity(selectedDayIndex, sel.index, patch) =>
                  /\ plan'.itinerary = plan.itinerary
                  /\ Len(LiveDaysAfter) = Len(LiveDays)
                  /\ IF sel.index = -1
                     THEN /\ plan'.stayLocation = patch
                          /\ LiveDaysAfter = LiveDays
                     ELSE /\ plan'.stayLocation = plan.stayLocation
                          /\ LiveDaysAfter[selectedDayIndex + 1][sel.index + 1]
                                = patch
                          /\ \A e \in 1..Len(LiveDays) :
                                /\ Len(LiveDaysAfter[e]) = Len(LiveDays[e])
                                /\ \A i \in 1..Len(LiveDays[e]) :
                                      (e # selectedDayIndex + 1
                                         \/ i # sel.index + 1)
                                      => LiveDaysAfter[e][i] = LiveDays[e][i]
      ]_vars

\* The stay location has been edited and then an activity of day 1.
C4_Witness ==
    /\ plan # NoPlan
    /\ plan.stayLocation = [Hotel EXCEPT !.name = "Edited",
                                         !.description = "my notes"]
    /\ LiveDays = << <<ActA, ActB>>,
                     <<[ActC EXCEPT !.name = "Edited",
                                    !.description = "my notes"]>> >>

\* C5 as stated: when a replacement succeeds while its plan is still the
\* live one, the slot it was asked for holds the new activity and nothing
\* else of the live plan differs from just before the response, the stay
\* location included.
C5_ReplaceChangesOneSlot ==
    [][\A k \in 1..Len(replaces) : \A newActivity \in Replacements :
         (/\ plan # NoPlan
          /\ plan.id = replaces[k].plan.id
          /\ replaces[k].activityIndex >= 0
          /\ ReplaceOk(k, newActivity)) =>
            LET r == replaces[k]
            IN /\ plan'.id = plan.id
               /\ plan'.stayLocation = plan.stayLocation
               /\ LiveDaysAfter[r.dayIndex + 1][r.activityIndex + 1]
                     = newActivity
               /\ \A e \in 1..Len(LiveDays) :
                     /\ Len(LiveDaysAfter[e]) = Len(LiveDays[e])
                     /\ \A i \in 1..Len(LiveDays[e]) :
                           (e # r.dayIndex + 1 \/ i # r.activityIndex + 1)
                           => LiveDaysAfter[e][i] = LiveDays[e][i]
      ]_vars

\* C6: when the replacement fails, the promise rejects, the plan is
\* unchanged, and the replacing flag of the pane that asked is false again.
C6_ReplaceFailureLeavesPlan ==
    [][\A k \in 1..Len(replaces) :
         ReplaceFail(k) =>
            /\ rejected' = rejected + 1
            /\ plan' = plan
            /\ itineraries' = itineraries
            /\ replaces[k].mounted => ~isReplacing'
      ]_vars

\* A replacement asked of the pane now shown has failed: the rejection was
\* delivered, the plan is as generated and nothing is being replaced.
C6_Witness ==
    /\ plan # NoPlan
    /\ rejected = 1
    /\ ops = 1
    /\ replaces = <<>>
    /\ ~isReplacing
    /\ LiveDays = GeneratedDays
    /\ plan.stayLocation = Hotel

\* C7 as stated: the excluded list given to the collaborator holds every
\* activity name of every day, and the activity installed by a successful
\* replacement never has a name of that list.
C7_ReplacementNameIsNew ==
    [][/\ PaneActive =>
             \A sel \in Selectable :
                handleReplaceActivity(selectedDayIndex, sel.index,
                                      sel.activity) =>
                   \A e \in 1..Len(LiveDays) : \A a \in Range(LiveDays[e]) :
                      a.name \in Range(replaces'[Len(replaces')].excludedPlaces)
       /\ \A k \in 1..Len(replaces) : \A newActivity \in Replacements :
             (replaces[k].activityIndex >= 0 /\ ReplaceOk(k, newActivity)) =>
                newActivity.name \notin Range(replaces[k].excludedPlaces)
      ]_vars

\* No two archive entries share an id.
DistinctIds(saved) ==
    \A i, j \in 1..Len(saved) : i # j => saved[i].id # saved[j].id

\* C8: after savePlan(p) the first archive entry has p's id, p's content and
\* a fresh timestamp, it is the only entry with that id, the other entries
\* are the former ones in their relative order, and the length is unchanged
\* when p's id was archived and one more when it was not; no two entries
\* ever share an id.
C8_SaveIsUpsert ==
    [][/\ DistinctIds(savedPlans')
       /\ PaneActive =>
             \A now \in 1..MaxClock :
                handleSavePlan(now) =>
                   LET others == {k \in 1..Len(savedPlans) :
                                     savedPlans[k].id # plan.id}
                       had == others # 1..Len(savedPlans)
                       At(k) == CHOOSE m \in 1..Len(savedPlans') :
                                   savedPlans'[m] = savedPlans[k]
                   IN /\ savedPlans'[1] = [plan EXCEPT !.createdAt = now]
                      /\ Cardinality({m \in 1..Len(savedPlans') :
                            savedPlans'[m].id = plan.id}) = 1
                      /\ Len(savedPlans') =
                            IF had THEN Len(savedPlans)
                            ELSE Len(savedPlans) + 1
                      /\ \A k \in others :
                            \E m \in 2..Len(savedPlans') :
                               savedPlans'[m] = savedPlans[k]
                      /\ \A k, l \in others : k < l => At(k) < At(l)
      ]_vars

\* The plan archived last has been saved again: it is first with the fresh
\* timestamp and the two others follow in the order they had.
C8_Witness ==
    /\ Len(savedPlans) = 3
    /\ plan # NoPlan
    /\ savedPlans[1] = [plan EXCEPT !.createdAt = 1]
    /\ savedPlans[1].id = 3
    /\ savedPlans[2] = StoredPlan(2)
    /\ savedPlans[3] = StoredPlan(1)

\* The archive as a reader sees it: each entry with its days' activities.
ArchiveContent ==
    [k \in 1..Len(savedPlans) |->
        [entry |-> savedPlans[k],
         days |-> itineraries[savedPlans[k].itinerary]]]

\* C9 as stated: reordering, editing, replacing and their responses leave
\* the content of every archive entry as it was; only savePlan and delete
\* change it.
C9_ArchiveIsSnapshot ==
    [][(\/ onReorderActivities
        \/ RefreshResponse
        \/ saveEdit
        \/ handleReplace
        \/ ReplaceResponse) => ArchiveContent' = ArchiveContent
      ]_vars

\* C10: loading a plan, from a successful generation or from the archive,
\* makes that plan the live plan in every field and selects day 0.
C10_LoadReplacesPlan ==
    [][/\ \A k \in 1..Len(savedPlans) :
             loadSavedPlan(k) =>
                /\ plan' = savedPlans[k]
                /\ LiveDaysAfter = itineraries[savedPlans[k].itinerary]
                /\ selectedDayIndex' = 0
       /\ PlanTripOk(Hotel) =>
             /\ plan' = [id |-> nextId + 1, destination |-> "Paris",
                         itinerary |-> nextId + 1, stayLocation |-> Hotel,
                         createdAt |-> 0,
                         centerCoordinates |-> Coordinates(5)]
             /\ plan'.id # plan.id
             /\ LiveDaysAfter = GeneratedDays
             /\ selectedDayIndex' = 0
      ]_vars

\* The first plan, saved, has been loaded from the archive over the second
\* generated plan while day 1 was selected there.
C10_Witness ==
    /\ nextId = 2
    /\ plan # NoPlan
    /\ plan.id = 1
    /\ plan.createdAt = 1
    /\ selectedDayIndex = 0
    /\ \E k \in 1..Len(savedPlans) : savedPlans[k] = plan

C13_TextOnlyRequest ==
    (plan = NoPlan /\ ~loading /\ areaSelections = <<>>) =>
        ENABLED (\E text \in Texts : Trim(text) # "" /\ typeDestination(text))

\* C12: submitting the form with a destination that is empty after
\* trimming and with no region selected passes no request on and changes
\* neither plan, loading, error nor anything else of the form and the app.
C12_EmptySubmitIsBlocked ==
    [][(/\ Trim(destination) = ""
        /\ Len(areaSelections) = 0
        /\ \/ handleSubmit("TripInput")
           \/ handleSubmit("App")) =>
          /\ request' = request
          /\ planRequests' = planRequests
          /\ plan' = plan
          /\ loading' = loading
          /\ error' = error
          /\ destination' = destination
          /\ areaSelections' = areaSelections
      ]_vars

\* A blank destination was submitted with no region selected: the submit
\* event was handled and no request has been passed on.
C12_Witness ==
    /\ defaultPrevented
    /\ request = NoRequest
    /\ destination = " "
    /\ areaSelections = <<>>

\* In the App every request passed to handlePlanTrip has selected areas:
\* the refutation of C13, which holds as an invariant of Spec.
NoTextOnlyRequest == request.selectedAreas.isNull => request = NoRequest

\* C17: whenever the selection list is non-empty the form's destination is
\* empty, and every request with a non-null selectedAreas has an empty
\* destination.
C17_AreasClearDestination ==
    /\ Len(areaSelections) > 0 => destination = ""
    /\ ~request.selectedAreas.isNull =>
          /\ request.destination = ""
          /\ Len(request.selectedAreas.value) > 0

\* A destination was typed and submitted, then a region was selected: the
\* destination field is empty again.
C17_Witness ==
    /\ request = [destination |-> "Rome", selectedAreas |-> Null]
    /\ areaSelections = <<Box>>
    /\ destination = ""

\* C14 as stated: in drawing mode a gesture whose anchor-to-release
\* distance is at most 100 m leaves the selection list unchanged, and a
\* longer one appends exactly one box, spanning anchor and release point,
\* with north > south and east different from west.
C14_GestureAppendsProperBox ==
    [][mouseup =>
         LET anchor == homeMap.startPoint
             release == homeMap.currentPoint
             n == Len(areaSelections)
         IN IF ~FartherThan100m(anchor, release)
            THEN areaSelections' = areaSelections
            ELSE /\ Len(areaSelections') = n + 1
                 /\ SubSeq(areaSelections', 1, n) = areaSelections
                 /\ LET box == areaSelections'[n + 1]
                    IN /\ {box.north, box.south} = {anchor.lat, release.lat}
                       /\ {box.east, box.west} = {anchor.lng, release.lng}
                       /\ box.north > box.south
                       /\ box.east # box.west
      ]_vars

\* C15: undoLastSelection on a non-empty list removes exactly the last box
\* and keeps the earlier ones in order; on an empty list nothing changes.
C15_UndoRemovesLast ==
    [][handleUndo =>
         IF Len(areaSelections) > 0
         THEN /\ Len(areaSelections') = Len(areaSelections) - 1
              /\ \A i \in 1..Len(areaSelections') :
                    areaSelections'[i] = areaSelections[i]
         ELSE UNCHANGED vars
      ]_vars

\* Three selections were made with Select Whole View, in two views, and
\* the last was undone: the first two remain, in order.
C15_Witness ==
    /\ homeMap.selectVisibleTrigger = 3
    /\ areaSelections = <<Box, [north |-> 4, south |-> 0, east |-> 4, west |-> 0]>>

\* C16: every selectVisibleViewport appends exactly one box, the map's
\* visible bounds at that time, also when the bounds did not change since
\* the last one.
C16_SelectVisibleAppendsOne ==
    [][handleSelectVisible =>
         /\ areaSelections' = areaSelections \o <<homeMap.bounds>>
         /\ homeMap'.selectVisibleTrigger = homeMap.selectVisibleTrigger + 1
         /\ homeMap'.bounds = homeMap.bounds
      ]_vars

\* Three invocations in the same view have appended three equal boxes.
C16_Witness ==
    /\ homeMap.selectVisibleTrigger = 3
    /\ homeMap.bounds = Box
    /\ areaSelections = <<Box, Box, Box>>

\* C18: the pane width changes only in a resize step taken while resizing
\* whose requested width w = clientX - containerLeft lies strictly between
\* 320 and three quarters of the container's width, and it is then exactly
\* w; a resize step with w outside that open band, or taken while not
\* resizing, and every other step leave the width as it was.
C18_WidthChangesOnlyInBand ==
    [][LET InBand(w) == 320 < w /\ 4 * w < 3 * containerWidth
       IN /\ \A clientX \in PointerXs : \A containerLeft \in ContainerLefts :
                resize(clientX, containerLeft) =>
                    itineraryWidth' =
                        IF isResizing /\ InBand(clientX - containerLeft)
                        THEN clientX - containerLeft
                        ELSE itineraryWidth
          /\ itineraryWidth' # itineraryWidth =>
                /\ isResizing
                /\ \E clientX \in PointerXs :
                   \E containerLeft \in ContainerLefts :
                      /\ resize(clientX, containerLeft)
                      /\ InBand(clientX - containerLeft)
                      /\ itineraryWidth' = clientX - containerLeft]_vars

\* A drag has set the width to 329 in a container 440 wide, just inside
\* the band.
C18_Witness ==
    /\ isResizing
    /\ containerWidth = 440
    /\ itineraryWidth = 329

\* C19: at every rendering of TripMap the path is the stay location, the
\* selected day's activities in their order and the stay location again
\* when the plan has a stay location, and the activities alone otherwise;
\* the view is fitted to the smallest box around the path when the path is
\* not empty, and is otherwise set to the plan's centerCoordinates at
\* zoom 13.
C19_PathAndView ==
    [][renderTripMap =>
        LET activities == Days(plan)[selectedDayIndex + 1]
            Pos(a) == <<a.location.lat, a.location.lng>>
            middle == [i \in 1..Len(activities) |-> Pos(activities[i])]
            path == IF plan.stayLocation # NoActivity
                    THEN <<Pos(plan.stayLocation)>> \o middle
                            \o <<Pos(plan.stayLocation)>>
                    ELSE middle
            lats == {path[i][1] : i \in 1..Len(path)}
            lngs == {path[i][2] : i \in 1..Len(path)}
            fit == tripMap'.view.fitBounds
        IN /\ tripMap'.pathPositions = path
           /\ IF path # <<>>
              THEN /\ fit.north \in lats /\ \A x \in lats : x <= fit.north
                   /\ fit.south \in lats /\ \A x \in lats : x >= fit.south
                   /\ fit.east \in lngs /\ \A x \in lngs : x <= fit.east
                   /\ fit.west \in lngs /\ \A x \in lngs : x >= fit.west
                   /\ tripMap'.view.setView = NoView
              ELSE /\ fit = NoBounds
                   /\ tripMap'.view.setView =
                         [center |-> <<plan.centerCoordinates.lat,
                                       plan.centerCoordinates.lng>>,
                          zoom |-> 13]]_vars

\* The second day, B then A, of a plan with a stay location is drawn.
C19_Witness ==
    /\ plan.stayLocation = Hotel
    /\ selectedDayIndex = 1
    /\ tripMap.pathPositions = <<<<9, 1>>, <<2, 8>>, <<1, 9>>, <<9, 1>>>>
    /\ tripMap.view.fitBounds =
          [north |-> 9, south |-> 1, east |-> 9, west |-> 1]

\* C20: whatever list recalculateLogistics was given and whatever list the
\* collaborator answered, the result is as long as the given list and its
\* i-th entry has the name, description, location, type, price and items of
\* the i-th given activity.
C20_LogisticsKeepIdentity ==
    /\ Len(logistics.result) = Len(logistics.activities)
    /\ \A i \in 1..Len(logistics.activities) :
          Identity(logistics.result[i]) = Identity(logistics.activities[i])

\* A, B was given and the answer had three entries, in another order and
\* the last with no field at all.
C20_Witness ==
    /\ logistics.activities = <<ActA, ActB>>
    /\ Len(logistics.updatedLogistics) = 3
    /\ logistics.updatedLogistics[1].name = "B"
    /\ logistics.updatedLogistics[2].name = "A"
    /\ logistics.updatedLogistics[3].name = ""
    /\ logistics.result[1].time = "08:00"

\* C21: while a refresh is pending a reorder can still be issued (as long
\* as the budget of operations allows one), and a reorder issued then is
\* applied to the plan in the same step and adds its own request to the
\* pending ones, which all stay pending.
C21_ReorderWhilePending ==
    /\ []((PaneActive /\ ops < MaxOps /\ refreshes # <<>>) =>
            ENABLED onReorderActivities)
    /\ [][(PaneActive /\ refreshes # <<>>) =>
            \A P \in PermutationsOf(LiveDays[selectedDayIndex + 1]) :
               handleReorderActivities(selectedDayIndex, P) =>
                  /\ LiveDaysAfter[selectedDayIndex + 1] = P
                  /\ Len(refreshes') = Len(refreshes) + 1
                  /\ refreshes'[Len(refreshes')].dayIndex = selectedDayIndex
                  /\ refreshes'[Len(refreshes')].live
         ]_vars

\* Two refreshes of day 0 are in flight at the same time.
C21_Witness ==
    /\ plan # NoPlan
    /\ Len(refreshes) = 2
    /\ refreshes[1].dayIndex = 0 /\ refreshes[2].dayIndex = 0
    /\ isRefreshingLogistics

\* C22: the stay location of the live plan, taken by name and location, is
\* in no day's list of activities.
C22_StayNotAmongActivities ==
    (plan # NoPlan /\ plan.stayLocation # NoActivity) =>
        \A d \in 1..Len(LiveDays) : \A i \in 1..Len(LiveDays[d]) :
            ~ /\ LiveDays[d][i].name = plan.stayLocation.name
              /\ LiveDays[d][i].location = plan.stayLocation.location

\* C23: a refresh response or a replacement response that arrives when the
\* live plan is no longer the plan of its request (it was cleared, or
\* another plan took its place) changes neither the live plan nor its
\* days.
C23_LateResponseDiscarded ==
    [][/\ \A k \in 1..Len(refreshes) :
          \A resp \in LogisticsResponses(Len(GivenActivities(refreshes[k]))) :
             (plan.id # refreshes[k].updatedPlan.id /\ RefreshOk(k, resp)) =>
                /\ plan' = plan
                /\ plan # NoPlan => LiveDaysAfter = LiveDays
       /\ \A k \in 1..Len(replaces) : \A newActivity \in Replacements :
             (plan.id # replaces[k].plan.id /\ ReplaceOk(k, newActivity)) =>
                /\ plan' = plan
                /\ plan # NoPlan => LiveDaysAfter = LiveDays
      ]_vars

\* C24: a drop on the card at the dragged index, or with nothing dragged,
\* changes no list and issues no refresh; every other drop passes to
\* reorderActivities the selected day's list with one element moved: the
\* list has the same length and no undefined element, the element that was
\* at the dragged index is at the target index, and the others are in
\* their order.
C24_DropMovesOneElement ==
    [][\A targetIndex \in 0..1 :
         onDrop(targetIndex) =>
            LET old == LiveDays[selectedDayIndex + 1]
                new == LiveDaysAfter[selectedDayIndex + 1]
                from == drag.draggedIndex
            IN IF from = -1 \/ from = targetIndex
               THEN itineraries' = itineraries /\ refreshes' = refreshes
               ELSE /\ Len(refreshes') = Len(refreshes) + 1
                    /\ Len(new) = Len(old)
                    /\ \A i \in 1..Len(new) : new[i] # NoActivity
                    /\ from + 1 \in 1..Len(old)
                    /\ new[targetIndex + 1] = old[from + 1]
                    /\ RemoveAt(new, targetIndex + 1) = RemoveAt(old, from + 1)
      ]_vars

\* C25: whenever drawing mode is off the gesture is Idle: there is no
\* anchor and no preview rectangle, also when drawing mode was toggled off
\* between pointer-down and pointer-up.
C25_IdleWhenDrawingOff ==
    ~homeMap.isDrawingMode =>
        homeMap.startPoint = NoPoint /\ homeMap.currentPoint = NoPoint

C27_LastReorderWins ==
    (lastReorder # NoReorder /\ refreshes = <<>>) =>
        LET day == itineraries[lastReorder.itinerary][lastReorder.dayIndex + 1]
        IN /\ Len(day) = Len(lastReorder.newActivities)
           /\ \A i \in 1..Len(day) :
                 Identity(day[i]) = Identity(lastReorder.newActivities[i])

\* C28: the sync flag is true exactly when at least one refresh request is
\* in flight.
C28_FlagIffRefreshInFlight ==
    isRefreshingLogistics <=> (refreshes # <<>>)

\* C29: whenever a plan is displayed the selected day index is an index of
\* its itinerary: 0 <= selectedDayIndex < number of days.
C29_SelectedDayIsValid ==
    IF plan = NoPlan THEN TRUE
    ELSE 0 <= selectedDayIndex /\ selectedDayIndex < Len(Days(plan))

\* C30: when a refresh response is applied to the plan it was requested
\* for, every activity that carries an edit (the name and description the
\* edit dialog wrote) still carries it at its place, and an edited stay
\* location is still the edited value.
C30_EditSurvivesRefresh ==
    [][\A k \in 1..Len(refreshes) :
         \A resp \in LogisticsResponses(Len(GivenActivities(refreshes[k]))) :
            (plan.id = refreshes[k].updatedPlan.id /\ RefreshOk(k, resp)) =>
               /\ \A d \in 1..Len(LiveDays) : \A i \in 1..Len(LiveDays[d]) :
                     LiveDays[d][i].name = "Edited" =>
                        /\ LiveDaysAfter[d][i].name = "Edited"
                        /\ LiveDaysAfter[d][i].description = "my notes"
               /\ plan.stayLocation.name = "Edited" =>
                     plan'.stayLocation = plan.stayLocation
      ]_vars

=============================================================================
